---- MODULE Spec2Model ----
(***************************************************************************)
(* Model of fluxus_netmiko_functions: the platform dispatcher, the default *)
(* Netmiko driver, and the fleet tasks built on Nornir.                    *)
(*                                                                         *)
(* Strings the code takes apart are sequences: a dotted path is the        *)
(* sequence of its segments, a command or a record key is the sequence of  *)
(* its characters, a text is the sequence of its lines.                    *)
(***************************************************************************)
EXTENDS Integers, Sequences, FiniteSets, TLC

VARIABLES
    \* ---- one dispatcher call on one host (SpecDispatch)
    platform,       \* task.host.platform
    kwargs,         \* [supplied, mapping]: the default_drivers_mapping keyword
    method,         \* the method name handed to dispatcher
    config,         \* the config argument forwarded to deploy_config
    dpc,            \* "call" | "driver" | "done"
    driver,         \* the dotted path dispatcher resolved, <<>> before
    invoked,        \* sequence of [driver, method] started through task.run
    sent,           \* sequence of what went to the device
    driver_outcome, \* how the driver method ended
    outcome         \* how the dispatcher task ended

dvars == <<platform, kwargs, method, config, dpc, driver, invoked, sent,
           driver_outcome, outcome>>

VARIABLES
    \* ---- one fleet run over an inventory (Spec)
    job,            \* which fleet function runs
    args,           \* its arguments: [command, use_textfsm, output]
    hosts,          \* the names in the inventory
    hostdata,       \* host name |-> [platform, data]
    hpc,            \* host name |-> "ready" | "send" | "loop" | "done"
    results,        \* host name |-> get_device_state's results list
    hsent,          \* host name |-> what went to that host's device
    hres,           \* host name |-> the MultiResult of the host's task
    mpc,            \* "run" | "done" | "crashed": the fleet function itself
    agg,            \* what nornir.run returned: sequence of [host, mr]
    data,           \* run_command's data: sequence of [host, value]
    fs,             \* the files written: path |-> sequence of writes since truncation
    fs_first,       \* fs as the first persist left it
    persists        \* how many times the persist loop has run

fvars == <<job, args, hosts, hostdata, hpc, results, hsent, hres, mpc, agg, data,
           fs, fs_first, persists>>

VARIABLES
    \* ---- one call of process_structured_output (SpecRename)
    structured_data, ignore_columns, processed, rpc

rvars == <<structured_data, ignore_columns, processed, rpc>>

VARIABLES
    \* ---- one call of wait_until_reachable (SpecWait)
    timeout,        \* the timeout argument, in seconds
    elapsed,        \* time.time() - start_time, in seconds
    probes,         \* the pings so far: [at, response]
    wpc,            \* "test" | "probe" | "sleep" | "done"
    wresult         \* how wait_until_reachable ended

wvars == <<timeout, elapsed, probes, wpc, wresult>>

vars == <<dvars, fvars, rvars, wvars>>

\* ---------------------------------------------------------------- values
\* Python's None.
None == [kind |-> "None"]

\* A Python str, as the sequence of its lines; a line is a Line or, for the
\* last line of a traceback, the exception it prints.
Line(s) == [kind |-> "line", s |-> s]
Str(lines) == [kind |-> "str", lines |-> lines]

\* A Python dict, as a function of its keys.
Dict(d) == [kind |-> "dict", d |-> d]

\* An exception object: its class, its message, and what the message quotes.
Exc(type, msg, detail) == [kind |-> "exc", type |-> type, msg |-> msg, detail |-> detail]

\* nornir Result of a task that returned r.
Result(r) == [failed |-> FALSE, exception |-> None, result |-> r]

\* nornir Result of a task that raised e: the result is the traceback text,
\* whose last line names the exception.
FailedResult(e) ==
    [failed |-> TRUE, exception |-> e,
     result |-> Str(<<Line("Traceback (most recent call last):"), e>>)]

\* str(e): the message of the exception.
StrOf(e) == Str(<<Line(e.msg)>>)

\* How a task function ended: it returned a value or raised.
Returned(r) == [raised |-> FALSE, exc |-> None, result |-> r]
Raised(e) == [raised |-> TRUE, exc |-> e, result |-> None]

\* ------------------------------------------------------- dispatcher.py
Pkg == "fluxus_netmikto_functions"

DriverPath(mod, cls) == <<Pkg, "drivers", mod, cls>>

DEFAULT_DRIVERS_MAPPING ==
    [p \in {"default", "default_netmiko", "arista_eos", "cisco_aireos",
            "cisco_asa", "cisco_ios", "cisco_ios_restconf", "cisco_nxos",
            "cisco_wlc", "cisco_xr", "fortinet_fortios", "juniper_junos",
            "netscaler", "paloalto_panos"} |->
        CASE p = "default" -> DriverPath("default", "NetboxNornirDriver")
          [] p = "default_netmiko" -> DriverPath("default", "NetmikoNetboxNornirDriver")
          [] p = "cisco_xr" -> DriverPath("cisco_ios_xr", "NetboxNornirDriver")
          [] OTHER -> DriverPath(p, "NetboxNornirDriver")]

\* The capabilities class NetboxNornirDriver defines.
DriverMethods == {"get_config", "deploy_config", "wait_until_reachable", "reload_device"}

\* What importlib can import: the driver modules of this repository, under
\* the package's own name and under the name the code imports it by.
\* module path |-> (class name |-> its methods).
InstalledModules ==
    [m \in {<<"fluxus_netmiko_functions", "drivers", "default">>,
            <<Pkg, "drivers", "default">>} |->
        [c \in {"NetboxNornirDriver"} |-> DriverMethods]]

\* kwargs.get("default_drivers_mapping") is truthy only for a non-empty mapping.
SelectMapping(kw) ==
    IF kw.supplied /\ DOMAIN kw.mapping # {}
    THEN kw.mapping
    ELSE DEFAULT_DRIVERS_MAPPING

\* dict.get(platform): the entry, or None (here the empty path, falsy alike).
MappingGet(mapping, p) == IF p \in DOMAIN mapping THEN mapping[p] ELSE <<>>

MappingGetOrDefault(mapping, p) ==
    IF p \in DOMAIN mapping THEN mapping[p]
    ELSE IF "default" \in DOMAIN mapping THEN mapping["default"] ELSE <<>>

\* Line 50: driver = default_drivers_mapping.get(task.host.platform)
LookupDriver(mapping, p) == MappingGet(mapping, p)

DriverNotFound == Exc("FluxusNetmikoException", "Unable to find the driver", None)

\* getattr's own error, not translated.
MethodAttributeError == Exc("AttributeError", "type object has no attribute", None)

MethodNotFound == Exc("FluxusNetmikoException", "Unable to locate the method", None)

\* Lines 39-80: from the keyword and the platform to the driver method, or to
\* the exception raised on the way. [exc, driver, ok].
Resolve(kw, p, meth) ==
    LET drv == LookupDriver(SelectMapping(kw), p) IN
    IF drv = <<>> THEN [ok |-> FALSE, exc |-> DriverNotFound, driver |-> drv]
    ELSE IF Len(drv) < 2
    THEN [ok |-> FALSE, exc |-> Exc("ValueError", "not enough values to unpack", None),
          driver |-> drv]
    ELSE LET module_name == SubSeq(drv, 1, Len(drv) - 1)
             class_name == drv[Len(drv)]
         IN IF module_name \notin DOMAIN InstalledModules
            THEN [ok |-> FALSE, exc |-> Exc("ModuleNotFoundError", "No module named", None),
                  driver |-> drv]
            ELSE IF class_name \notin DOMAIN InstalledModules[module_name]
            THEN [ok |-> FALSE, exc |-> Exc("AttributeError", "module has no attribute", None),
                  driver |-> drv]
            ELSE IF meth \notin InstalledModules[module_name][class_name]
            THEN [ok |-> FALSE, exc |-> MethodNotFound, driver |-> drv]
            ELSE [ok |-> TRUE, exc |-> None, driver |-> drv]

\* ------------------------------------------------------- nornir task calls
\* MultiResult.failed: some result in it failed.
MRFailed(mr) == \E i \in 1..Len(mr) : mr[i].failed

\* What a parent task keeps of a sub-task's MultiResult r: r[0] when r holds
\* one result, else r itself, whose result and exception read r[0] and whose
\* failed is MRFailed(r).
Entry(mr) ==
    IF Len(mr) = 1 THEN mr[1]
    ELSE [failed |-> MRFailed(mr), exception |-> mr[1].exception, result |-> mr[1].result]

\* Task.start: the task's own Result first, then what its sub-tasks left.
TaskStart(own, subs) ==
    <<IF own.raised THEN FailedResult(own.exc) ELSE Result(own.result)>> \o subs

\* ------------------------------------------------------- the transport
AuthFailure == Exc("NetmikoAuthenticationException", "Authentication to device failed", None)
TimeoutFailure == Exc("NetmikoTimeoutException", "TCP connection to device failed", None)
OtherFailure == Exc("ReadTimeout", "Pattern not detected", None)

TransportFailures == {AuthFailure, TimeoutFailure, OtherFailure}

InvalidInput == Line("ERROR: % Invalid input detected at")

\* Device texts: empty, plain, and one the device answers a rejected command with.
Texts == {<<>>, <<Line("hostname r1")>>, <<Line("show run"), InvalidInput>>}

\* What one send can come to.
SendOutcomes ==
    {[ok |-> TRUE, exc |-> None, text |-> t] : t \in Texts}
    \cup {[ok |-> FALSE, exc |-> e, text |-> <<>>] : e \in TransportFailures}

\* The MultiResult of netmiko_send_command / netmiko_send_config.
SendMR(o) == <<IF o.ok THEN Result(Str(o.text)) ELSE FailedResult(o.exc)>>

\* ------------------------------------------------------- drivers/default.py
RUN_COMMAND_MAPPING ==
    [p \in {"default", "arista_eos", "cisco_aireos", "cisco_nxos", "cisco_ios",
            "cisco_wlc", "cisco_xr", "juniper_junos", "netscaler"} |->
        CASE p = "cisco_aireos" -> "show run-config commands"
          [] p = "cisco_wlc" -> "show running-config"
          [] p = "juniper_junos" -> "show configuration | display set"
          [] OTHER -> "show run"]

RunCommand(p) ==
    IF p \in DOMAIN RUN_COMMAND_MAPPING THEN RUN_COMMAND_MAPPING[p]
    ELSE RUN_COMMAND_MAPPING["default"]

\* A test of the first line alone.
ContainsAtStart(text, line) == text # <<>> /\ text[1] = line

Contains(text, line) == \E i \in 1..Len(text) : text[i] = line

DriverError(msg, e) == Exc("OptiNetworkAutomationException", msg, e)

\* get_config with the unknown failures handed back as a result.
GetConfigReturningFailure(o) ==
    IF MRFailed(SendMR(o))
    THEN IF o.exc.type = "NetmikoAuthenticationException"
         THEN Raised(DriverError("Failed with an authentication issue", o.exc))
         ELSE IF o.exc.type = "NetmikoTimeoutException"
         THEN Raised(DriverError("Failed with a timeout issue", o.exc))
         ELSE Returned(SendMR(o)[1].result)
    ELSE IF Contains(o.text, InvalidInput)
    THEN Raised(DriverError("Discovered ERROR: % Invalid input detected at in the output", None))
    ELSE Returned(Dict([config |-> Str(o.text)]))

\* get_config, given what its send came to.
GetConfig(o) ==
    IF MRFailed(SendMR(o))
    THEN IF o.exc.type = "NetmikoAuthenticationException"
         THEN Raised(DriverError("Failed with an authentication issue", o.exc))
         ELSE IF o.exc.type = "NetmikoTimeoutException"
         THEN Raised(DriverError("Failed with a timeout issue", o.exc))
         ELSE Raised(DriverError("Failed with an unknown issue", o.exc))
    ELSE IF Contains(o.text, InvalidInput)
    THEN Raised(DriverError("Discovered ERROR: % Invalid input detected at in the output", None))
    ELSE Returned(Dict([config |-> Str(o.text)]))

\* str.splitlines over a text given as tokens, "\n" the line break.
RECURSIVE Splitlines(_)
Splitlines(s) ==
    IF s = <<>> THEN <<>>
    ELSE IF \E i \in 1..Len(s) : s[i] = "\n"
    THEN LET i == CHOOSE k \in 1..Len(s) :
                     s[k] = "\n" /\ \A j \in 1..(k - 1) : s[j] # "\n"
         IN <<SubSeq(s, 1, i - 1)>> \o Splitlines(SubSeq(s, i + 1, Len(s)))
    ELSE <<s>>

\* deploy_config with a failure reported without its message.
DeployConfigDropsError(o) ==
    IF MRFailed(SendMR(o))
    THEN Returned(Dict([status |-> FALSE, error |-> None]))
    ELSE Returned(Dict([status |-> TRUE, error |-> None]))

DeployConfigRaising(o) ==
    IF MRFailed(SendMR(o))
    THEN IF o.exc.type = "NetmikoAuthenticationException"
         THEN Raised(DriverError("Failed with an authentication issue", o.exc))
         ELSE Returned(Dict([status |-> FALSE, error |-> StrOf(o.exc)]))
    ELSE Returned(Dict([status |-> TRUE, error |-> None]))

\* deploy_config, given what its send came to: the three except branches
\* return the same dict.
DeployConfig(o) ==
    IF MRFailed(SendMR(o))
    THEN IF o.exc.type = "NetmikoAuthenticationException"
         THEN Returned(Dict([status |-> FALSE, error |-> StrOf(o.exc)]))
         ELSE IF o.exc.type = "NetmikoTimeoutException"
         THEN Returned(Dict([status |-> FALSE, error |-> StrOf(o.exc)]))
         ELSE Returned(Dict([status |-> FALSE, error |-> StrOf(o.exc)]))
    ELSE Returned(Dict([status |-> TRUE, error |-> None]))

\* ------------------------------------------------------- dispatcher.py, 82-97
\* exc.result[0].result.splitlines()[-1] of the failed driver MultiResult; a
\* dict has no splitlines.
DispatcherRun(mr) ==
    IF MRFailed(mr)
    THEN IF mr[1].result.kind = "str"
         THEN IF mr[1].result.lines = <<>>
              THEN Raised(Exc("IndexError", "list index out of range", None))
              ELSE Raised(Exc("FluxusNetmikoException", "Subtask failed",
                              mr[1].result.lines[Len(mr[1].result.lines)]))
         ELSE Raised(Exc("AttributeError", "dict object has no attribute splitlines", None))
    ELSE Returned([kind |-> "Result", result |-> mr, error |-> None])

\* ------------------------------------- tasks/collect_stateful_commands.py
\* f"__{key}"
Marked(key) == <<"_", "_">> \o key

\* item[f"__{key}"] = item.pop(key), for a key the item has.
RenameKey(item, key) ==
    IF key \in DOMAIN item
    THEN [k \in (DOMAIN item \ {key}) \cup {Marked(key)} |->
            IF k = Marked(key) THEN item[key] ELSE item[k]]
    ELSE item

\* for key in ignore_columns: ..., in the order of the list.
RECURSIVE RenameKeys(_, _)
RenameKeys(item, cols) ==
    IF cols = <<>> THEN item
    ELSE RenameKeys(RenameKey(item, Head(cols)), Tail(cols))

List(v) == [kind |-> "list", v |-> v]

\* process_structured_output: a list is renamed item by item, a dict as one
\* item, anything else is returned as it is.
ProcessStructuredOutput(sd, cols) ==
    IF sd.kind = "list"
    THEN List([i \in 1..Len(sd.v) |-> RenameKeys(sd.v[i], cols)])
    ELSE IF sd.kind = "dict"
    THEN Dict(RenameKeys(sd.d, cols))
    ELSE sd

\* ------------------------------------------ one process_structured_output call
MaxRecords == 1
MaxIgnore == 2

FieldKeys == {<<"n">>, <<"s">>, <<"_", "_", "s">>}
FieldValues == {"up", "eth0"}

Records == UNION {[ks -> FieldValues] : ks \in SUBSET FieldKeys}

SeqsUpTo(S, n) == UNION {[1..k -> S] : k \in 0..n}

RenameInit ==
    /\ structured_data \in {Dict(r) : r \in Records}
                           \cup {List(l) : l \in SeqsUpTo(Records, MaxRecords)}
                           \cup {None}
    /\ ignore_columns \in SeqsUpTo(FieldKeys, MaxIgnore)
    /\ processed = None
    /\ rpc = "call"

ProcessCall ==
    /\ rpc = "call"
    /\ processed' = ProcessStructuredOutput(structured_data, ignore_columns)
    /\ rpc' = "done"
    /\ UNCHANGED <<structured_data, ignore_columns, dvars, fvars, wvars>>

\* ------------------------------------------------------- textfsm.py
\* What get_state_textfsm (ntc_templates parse_output) can come to for a
\* text: it raises, it yields no record, it yields records.
ParsedRecords == <<[k \in {<<"n">>, <<"s">>} |-> IF k = <<"n">> THEN "eth0" ELSE "up"]>>

ParserError == Exc("Exception", "Unable to parse command", None)

ParserOutcomes ==
    {[raised |-> TRUE, records |-> <<>>],
     [raised |-> FALSE, records |-> <<>>],
     [raised |-> FALSE, records |-> ParsedRecords]}

\* ------------------------------------------------------- utils.py
\* A write that opens the file for appending.
AppendFile(fsys, path, content) ==
    [q \in DOMAIN fsys \cup {path} |->
        IF q = path
        THEN (IF path \in DOMAIN fsys THEN fsys[path] ELSE <<>>) \o <<content>>
        ELSE fsys[q]]

\* open(file_path, "w") and one write: the file holds that write alone.
WriteFile(fsys, path, content) ==
    [q \in DOMAIN fsys \cup {path} |-> IF q = path THEN <<content>> ELSE fsys[q]]

\* log_nornir_sub_exception: the exception it raises, that of the last
\* result of the failed sub-task; raising None is a TypeError.
LogNornirSubException(mr) ==
    IF mr[Len(mr)].exception = None
    THEN Exc("TypeError", "exceptions must derive from BaseException", None)
    ELSE mr[Len(mr)].exception

\* ------------------------------------------- drivers/default.py, reload_device
\* The two outputs the other way round.
JoinOutputsReversed(a, b) == (IF b = <<>> THEN <<Line("")>> ELSE b) \o a

\* output_reload + "\n" + output_confirm, as lines.
JoinOutputs(a, b) == (IF a = <<>> THEN <<Line("")>> ELSE a) \o b

\* Lines 212-219: the handler logs through log_nornir_sub_exception, which
\* raises the exception of the failed send; the return after it is not reached.
ReloadFailed(mr) == Raised(LogNornirSubException(mr))

\* reload_device, given what its sends so far came to: the reload send, then
\* the confirm send.
ReloadDevice(os) ==
    IF ~os[1].ok THEN ReloadFailed(SendMR(os[1]))
    ELSE IF ~os[2].ok THEN ReloadFailed(SendMR(os[2]))
    ELSE Returned(Dict([status |-> TRUE, error |-> None,
                        output |-> Str(JoinOutputs(os[1].text, os[2].text))]))

\* ------------------------------------------------------- get_device_state
JsonDumps(v) == [kind |-> "json", v |-> v]
JsonLoads(s) == s.v

DataGet(d, k, default) == IF k \in DOMAIN d THEN d[k] ELSE default

\* The two sources joined, the host's own commands first.
CommandsMerged(d) ==
    DataGet(d, "commands", <<>>)
        \o DataGet(DataGet(d, "config_context", <<>>), "commands", <<>>)

\* Lines 53-55: the host's commands, else those of its config_context.
Commands(d) ==
    IF DataGet(d, "commands", <<>>) # <<>>
    THEN DataGet(d, "commands", <<>>)
    ELSE DataGet(DataGet(d, "config_context", <<>>), "commands", <<>>)

IgnoreColumns(cmd) == IF "ignore_columns" \in DOMAIN cmd THEN cmd.ignore_columns ELSE <<>>

\* Line 63: get_state_textfsm is called for every command whose send did
\* not raise; nothing of the command spec is consulted.
ParserCalled(cmd, o) == ~MRFailed(SendMR(o))

\* The dict with the parser's empty list kept as it is.
CommandResultKeepsEmpty(cmd, o, p) ==
    [cmd |-> cmd.command,
     structured |-> ProcessStructuredOutput(List(p.records), IgnoreColumns(cmd)),
     unstructured |-> IF ~SendMR(o)[1].failed THEN Str(o.text) ELSE None]

\* Lines 63-84: the dict appended for a command sent as o and parsed as p.
CommandResult(cmd, o, p) ==
    LET structured_result == ProcessStructuredOutput(List(p.records), IgnoreColumns(cmd))
    IN [cmd |-> cmd.command,
        structured |-> IF structured_result.v # <<>> THEN structured_result ELSE None,
        unstructured |-> IF ~SendMR(o)[1].failed THEN Str(o.text) ELSE None]

\* results.insert(0, result)
PrependResult(rs, r) == <<r>> \o rs

\* Line 85: results.append(result)
AppendResult(rs, r) == Append(rs, r)

SubTaskError == Exc("NornirSubTaskError", "Subtask: netmiko_send_command (failed)", None)

\* A turn that records a failed send as a result without text and goes on.
LoopTurnSkipsFailure(rs, cmd, o, p) ==
    IF p.raised /\ ~MRFailed(SendMR(o))
    THEN [failed |-> TRUE, error |-> ParserError, results |-> rs]
    ELSE [failed |-> FALSE, error |-> None, results |-> AppendResult(rs, CommandResult(cmd, o, p))]

\* One turn of the loop of lines 57-92 for command cmd, the results so far rs:
\* [failed, error, results].
LoopTurn(rs, cmd, o, p) ==
    IF MRFailed(SendMR(o))
    THEN [failed |-> TRUE, error |-> SubTaskError, results |-> rs]
    ELSE IF p.raised
    THEN [failed |-> TRUE, error |-> ParserError, results |-> rs]
    ELSE [failed |-> FALSE, error |-> None, results |-> AppendResult(rs, CommandResult(cmd, o, p))]

\* The results the host's sends left in its task, in order.
SubResults(log) == [i \in 1..Len(log) |-> SendMR(log[i].outcome)[1]]

\* ------------------------------------------ sub_collect_device_configuration
\* The dispatcher task's MultiResult when the driver method ended as own
\* after the send o.
DispatcherMR(o) ==
    LET driver_mr == TaskStart(GetConfig(o), SendMR(o))
    IN TaskStart(DispatcherRun(driver_mr), <<Entry(driver_mr)>>)

\* Lines 18-52, given the MultiResult of the dispatcher sub-task.
SubCollect(mr) ==
    IF MRFailed(mr)
    THEN Raised(LogNornirSubException(mr))
    ELSE IF Len(mr) < 2
    THEN Returned(Dict([status |-> FALSE, error |-> Str(<<Line("list index out of range")>>)]))
    ELSE LET d == mr[2].result.d IN
         IF "config" \in DOMAIN d /\ d.config.lines # <<>>
         THEN Returned(Dict([status |-> TRUE, error |-> None, config |-> d.config]))
         ELSE IF "error" \in DOMAIN d
         THEN Returned(Dict([status |-> FALSE, error |-> d.error]))
         ELSE Returned(Dict([status |-> FALSE, error |-> Str(<<Line("error")>>)]))

\* ------------------------------------------------------- the fleet
HostNames == {"host-a", "host-b"}

\* The inventory's iteration order.
HostOrder == <<"host-a", "host-b">>

\* nornir.run: one MultiResult per host of the inventory, in inventory order.
AggregatedResult(hs, res) ==
    LET order == SelectSeq(HostOrder, LAMBDA h : h \in hs)
    IN [i \in 1..Len(order) |-> [host |-> order[i], mr |-> res[order[i]]]]

\* d[key] = value on a dict kept as a sequence of [host, value].
DictSet(d, key, value) ==
    IF \E i \in 1..Len(d) : d[i].host = key
    THEN [i \in 1..Len(d) |-> IF d[i].host = key THEN [host |-> key, value |-> value] ELSE d[i]]
    ELSE Append(d, [host |-> key, value |-> value])

Keys(d) == {d[i].host : i \in 1..Len(d)}

\* tasks/run_commands.py, lines 27-42: the loop over the results, parse[h]
\* being what the parser comes to for host h. [crashed, data].
RECURSIVE RunCommandLoop(_, _, _, _)
RunCommandLoop(acc, rest, use_textfsm, parse) ==
    IF rest = <<>> THEN [crashed |-> FALSE, data |-> acc]
    ELSE LET e == Head(rest) IN
         IF e.mr[1].failed
         THEN RunCommandLoop(DictSet(acc, e.host, e.mr[1].result), Tail(rest), use_textfsm, parse)
         ELSE IF use_textfsm
         THEN IF parse[e.host].raised
              THEN [crashed |-> TRUE, data |-> acc]
              ELSE RunCommandLoop(DictSet(acc, e.host, List(parse[e.host].records)),
                                  Tail(rest), use_textfsm, parse)
         ELSE RunCommandLoop(DictSet(acc, e.host, e.mr[1].result), Tail(rest), use_textfsm, parse)

ReplaceSpaces(cmd) == [i \in 1..Len(cmd) |-> IF cmd[i] = " " THEN "_" ELSE cmd[i]]

\* os.path.join(output_folder, "state", host, f"{host}__{cmd}{ext}")
StatePath(host, cmd, ext) ==
    [dir |-> <<"state", host>>, name |-> <<host, "_", "_">> \o ReplaceSpaces(cmd) \o <<ext>>]

\* os.path.join(output_path, f"{host}.cfg")
ConfigPath(host) == [dir |-> <<>>, name |-> <<host, ".cfg">>]

Truthy(v) == v # None /\ (v.kind = "str" => v.lines # <<>>) /\ (v.kind = "list" => v.v # <<>>)

\* Lines 134-153: the writes for one Command Result.
PersistCommand(fsys, host, command) ==
    LET f1 == IF Truthy(command.structured)
              THEN WriteFile(fsys, StatePath(host, command.cmd, ".json"),
                             JsonDumps(command.structured))
              ELSE fsys
    IN IF Truthy(command.unstructured)
       THEN WriteFile(f1, StatePath(host, command.cmd, ".output"), command.unstructured)
       ELSE f1

RECURSIVE PersistCommands(_, _, _)
PersistCommands(fsys, host, commands) ==
    IF commands = <<>> THEN fsys
    ELSE PersistCommands(PersistCommand(fsys, host, Head(commands)), host, Tail(commands))

\* collect_stateful_commands, lines 127-153: [crashed, fs]. Iterating the
\* dict of a failed host yields its keys, and indexing a key by "structured"
\* is a TypeError.
RECURSIVE PersistState(_, _, _)
PersistState(fsys, rest, output) ==
    IF rest = <<>> THEN [crashed |-> FALSE, fs |-> fsys]
    ELSE LET e == Head(rest)
             result == e.mr[1].result
         IN IF ~output
            THEN PersistState(fsys, Tail(rest), output)
            ELSE IF result.kind = "json"
            THEN PersistState(PersistCommands(fsys, e.host, JsonLoads(result)),
                              Tail(rest), output)
            ELSE [crashed |-> TRUE, fs |-> fsys]

\* collect_device_configuration, lines 78-87: [crashed, fs]. A result that
\* is no dict, or a dict without "config", cannot be indexed by "config".
RECURSIVE PersistConfig(_, _, _)
PersistConfig(fsys, rest, output) ==
    IF rest = <<>> THEN [crashed |-> FALSE, fs |-> fsys]
    ELSE LET e == Head(rest)
             result == e.mr[1].result
         IN IF ~output
            THEN PersistConfig(fsys, Tail(rest), output)
            ELSE IF result.kind = "dict" /\ "config" \in DOMAIN result.d
            THEN PersistConfig(WriteFile(fsys, ConfigPath(e.host), result.d.config),
                               Tail(rest), output)
            ELSE [crashed |-> TRUE, fs |-> fsys]

\* ------------------------------------------------------- one dispatcher call
Pending == [raised |-> FALSE, exc |-> None, result |-> [kind |-> "pending"]]

NoOverrides == [supplied |-> FALSE, mapping |-> <<>>]

RepoDriver == <<"fluxus_netmiko_functions", "drivers", "default", "NetboxNornirDriver">>

\* Override mappings a caller may pass: empty, one platform, only a default,
\* a platform with an undotted path.
Overrides ==
    {NoOverrides,
     [supplied |-> TRUE, mapping |-> <<>>],
     [supplied |-> TRUE, mapping |-> [p \in {"cisco_ios"} |-> RepoDriver]],
     [supplied |-> TRUE, mapping |-> [p \in {"default"} |-> RepoDriver]],
     [supplied |-> TRUE, mapping |-> [p \in {"vendor_os", "default"} |->
                                        IF p = "default" THEN RepoDriver ELSE <<"vendor">>]]}

Platforms == DOMAIN DEFAULT_DRIVERS_MAPPING \cup {"unknown_os", "vendor_os"}

\* The methods asked of the dispatcher: the driver's that go to the device,
\* and a name the driver does not define.
Methods == {"get_config", "deploy_config", "reload_device", "no_such_method"}

Configs == {<<>>, <<"interface eth0", "\n", "no shutdown">>}

DispatchInit ==
    /\ platform \in Platforms
    /\ kwargs \in Overrides
    /\ method \in Methods
    /\ config \in Configs
    /\ dpc = "call"
    /\ driver = <<>>
    /\ invoked = <<>>
    /\ sent = <<>>
    /\ driver_outcome = Pending
    /\ outcome = Pending

\* dispatcher, up to the start of the driver method.
Dispatcher ==
    /\ dpc = "call"
    /\ LET r == Resolve(kwargs, platform, method) IN
       /\ driver' = r.driver
       /\ IF r.ok
          THEN /\ invoked' = Append(invoked, [driver |-> r.driver, method |-> method])
               /\ dpc' = "driver"
               /\ outcome' = outcome
          ELSE /\ invoked' = invoked
               /\ dpc' = "done"
               /\ outcome' = Raised(r.exc)
    /\ UNCHANGED <<platform, kwargs, method, config, sent, driver_outcome, fvars, rvars, wvars>>

\* The driver's get_config runs its one send; dispatcher ends on its result.
RunGetConfig ==
    /\ dpc = "driver"
    /\ method = "get_config"
    /\ \E o \in SendOutcomes :
        /\ sent' = Append(sent, [task |-> "netmiko_send_command",
                                 arg |-> RunCommand(platform), outcome |-> o])
        /\ driver_outcome' = GetConfig(o)
        /\ outcome' = DispatcherRun(TaskStart(GetConfig(o), SendMR(o)))
    /\ dpc' = "done"
    /\ UNCHANGED <<platform, kwargs, method, config, driver, invoked, fvars, rvars, wvars>>

\* The driver's deploy_config sends the batch; dispatcher ends on its result.
RunDeployConfig ==
    /\ dpc = "driver"
    /\ method = "deploy_config"
    /\ \E o \in SendOutcomes :
        /\ sent' = Append(sent, [task |-> "netmiko_send_config",
                                 arg |-> Splitlines(config), outcome |-> o])
        /\ driver_outcome' = DeployConfig(o)
        /\ outcome' = DispatcherRun(TaskStart(DeployConfig(o), SendMR(o)))
    /\ dpc' = "done"
    /\ UNCHANGED <<platform, kwargs, method, config, driver, invoked, fvars, rvars, wvars>>

\* The driver's reload_device sends "reload"; when that send fails the
\* method and the dispatcher end here.
ReloadSend ==
    /\ dpc = "driver"
    /\ method = "reload_device"
    /\ sent = <<>>
    /\ \E o \in SendOutcomes :
        /\ sent' = Append(sent, [task |-> "netmiko_send_command",
                                 arg |-> "reload", outcome |-> o])
        /\ IF o.ok
           THEN UNCHANGED <<dpc, driver_outcome, outcome>>
           ELSE /\ driver_outcome' = ReloadDevice(<<o>>)
                /\ outcome' = DispatcherRun(TaskStart(ReloadDevice(<<o>>), SendMR(o)))
                /\ dpc' = "done"
    /\ UNCHANGED <<platform, kwargs, method, config, driver, invoked, fvars, rvars, wvars>>

\* reload_device sends "confirm" after the reload prompt; dispatcher ends on
\* the method's result.
ReloadConfirm ==
    /\ dpc = "driver"
    /\ method = "reload_device"
    /\ Len(sent) = 1
    /\ \E o \in SendOutcomes :
        LET os == <<sent[1].outcome, o>> IN
        /\ sent' = Append(sent, [task |-> "netmiko_send_command",
                                 arg |-> "confirm", outcome |-> o])
        /\ driver_outcome' = ReloadDevice(os)
        /\ outcome' = DispatcherRun(TaskStart(ReloadDevice(os),
                                               SendMR(os[1]) \o SendMR(os[2])))
    /\ dpc' = "done"
    /\ UNCHANGED <<platform, kwargs, method, config, driver, invoked, fvars, rvars, wvars>>

\* ------------------------------------------------------- one fleet run
MaxCmds == 2
MaxPersists == 2

CmdA == [command |-> <<"a", " ", "b">>, ignore_columns |-> << <<"s">> >>]
CmdB == [command |-> <<"a", "_", "b">>, ignore_columns |-> <<>>]
\* A command spec that asks for no parsing.
CmdC == [command |-> <<"c">>, parse |-> FALSE]

BaseCmds == <<CmdA, CmdB, CmdC>>

\* The command lists hosts carry: up to MaxCmds commands, taken in turn from
\* BaseCmds starting anywhere.
CommandLists ==
    {[i \in 1..n |-> BaseCmds[((start + i - 2) % Len(BaseCmds)) + 1]] :
        start \in 1..Len(BaseCmds), n \in 0..MaxCmds}

Empty == [k \in {} |-> <<>>]

\* host.data: commands given directly, only under config_context, both, none.
HostDatas ==
    {[k \in {"commands"} |-> l] : l \in CommandLists}
    \cup {[k \in {"config_context"} |-> [c \in {"commands"} |-> <<CmdC>>]],
          [k \in {"commands", "config_context"} |->
              IF k = "commands" THEN <<>> ELSE [c \in {"commands"} |-> <<CmdB>>]],
          [k \in {"commands", "config_context"} |->
              IF k = "commands" THEN <<CmdA>> ELSE [c \in {"commands"} |-> <<CmdC>>]],
          Empty}

Jobs == {"run_command", "collect_device_configuration", "collect_stateful_commands"}

ArgsFor(j) ==
    IF j = "run_command"
    THEN {[command |-> <<"c">>, use_textfsm |-> t, output |-> FALSE] : t \in BOOLEAN}
    ELSE {[command |-> <<>>, use_textfsm |-> FALSE, output |-> b] : b \in BOOLEAN}

HostsFor(j) ==
    IF j = "collect_device_configuration"
    THEN {[platform |-> p, data |-> Empty] : p \in {"default", "cisco_ios", "unknown_os"}}
    ELSE IF j = "collect_stateful_commands"
    THEN {[platform |-> "cisco_ios", data |-> d] : d \in HostDatas}
    ELSE {[platform |-> "cisco_ios", data |-> Empty]}

\* Texts of the devices the state collection talks to.
StateSendOutcomes ==
    {[ok |-> TRUE, exc |-> None, text |-> <<Line("up")>>],
     [ok |-> FALSE, exc |-> TimeoutFailure, text |-> <<>>]}

FleetInit ==
    /\ job \in Jobs
    /\ args \in ArgsFor(job)
    /\ hosts \in SUBSET HostNames
    /\ hostdata \in [hosts -> HostsFor(job)]
    /\ hpc = [h \in hosts |-> "ready"]
    /\ results = [h \in hosts |-> <<>>]
    /\ hsent = [h \in hosts |-> <<>>]
    /\ hres = [h \in hosts |-> <<>>]
    /\ mpc = "run"
    /\ agg = <<>>
    /\ data = <<>>
    /\ fs = Empty
    /\ fs_first = Empty
    /\ persists = 0

HostDone(h, mr) ==
    /\ hpc' = [hpc EXCEPT ![h] = "done"]
    /\ hres' = [hres EXCEPT ![h] = mr]

\* run_command: the host's task is netmiko_send_command itself.
RunCommandSend(h) ==
    /\ job = "run_command"
    /\ hpc[h] = "ready"
    /\ \E o \in SendOutcomes :
        /\ hsent' = [hsent EXCEPT ![h] = Append(@, [task |-> "netmiko_send_command",
                                                    arg |-> args.command, outcome |-> o])]
        /\ HostDone(h, SendMR(o))
    /\ UNCHANGED <<job, args, hosts, hostdata, results, mpc, agg, data, fs, fs_first, persists, dvars, rvars, wvars>>

\* run_command after nornir.run returned: the loop and the return.
RunCommandReturn ==
    /\ job = "run_command"
    /\ mpc = "run"
    /\ \A h \in hosts : hpc[h] = "done"
    /\ agg' = AggregatedResult(hosts, hres)
    /\ \E parse \in [hosts -> ParserOutcomes] :
        LET r == RunCommandLoop(<<>>, agg', args.use_textfsm, parse) IN
        /\ mpc' = IF r.crashed THEN "crashed" ELSE "done"
        /\ data' = IF r.crashed THEN <<>> ELSE r.data
    /\ UNCHANGED <<job, args, hosts, hostdata, hpc, results, hsent, hres, fs, fs_first, persists, dvars, rvars, wvars>>

\* sub_collect_device_configuration up to the driver's send: dispatcher
\* resolves the driver; when it cannot, the host's task ends here.
ConfigDispatch(h) ==
    /\ job = "collect_device_configuration"
    /\ hpc[h] = "ready"
    /\ LET r == Resolve(NoOverrides, hostdata[h].platform, "get_config")
           dispatcher_mr == TaskStart(Raised(r.exc), <<>>)
       IN IF r.ok
          THEN /\ hpc' = [hpc EXCEPT ![h] = "send"]
               /\ hres' = hres
          ELSE HostDone(h, TaskStart(SubCollect(dispatcher_mr), <<Entry(dispatcher_mr)>>))
    /\ UNCHANGED <<job, args, hosts, hostdata, results, hsent, mpc, agg, data, fs, fs_first, persists, dvars, rvars, wvars>>

\* get_config's send and everything after it in the host's task.
ConfigSend(h) ==
    /\ job = "collect_device_configuration"
    /\ hpc[h] = "send"
    /\ \E o \in SendOutcomes :
        /\ hsent' = [hsent EXCEPT ![h] = Append(@, [task |-> "netmiko_send_command",
                                                    arg |-> RunCommand(hostdata[h].platform),
                                                    outcome |-> o])]
        /\ HostDone(h, TaskStart(SubCollect(DispatcherMR(o)), <<Entry(DispatcherMR(o))>>))
    /\ UNCHANGED <<job, args, hosts, hostdata, results, mpc, agg, data, fs, fs_first, persists, dvars, rvars, wvars>>

\* collect_device_configuration after nornir.run returned.
ConfigReturn ==
    /\ job = "collect_device_configuration"
    /\ mpc = "run"
    /\ \A h \in hosts : hpc[h] = "done"
    /\ agg' = AggregatedResult(hosts, hres)
    /\ LET r == PersistConfig(fs, agg', args.output) IN
        /\ mpc' = IF r.crashed THEN "crashed" ELSE "done"
        /\ fs' = r.fs
        /\ fs_first' = r.fs
    /\ persists' = 1
    /\ UNCHANGED <<job, args, hosts, hostdata, hpc, results, hsent, hres, data, dvars, rvars, wvars>>

\* get_device_state of a host without commands.
StateNoCommands(h) ==
    /\ job = "collect_stateful_commands"
    /\ hpc[h] = "ready"
    /\ Commands(hostdata[h].data) = <<>>
    /\ HostDone(h, TaskStart(Returned(JsonDumps(results[h])), <<>>))
    /\ UNCHANGED <<job, args, hosts, hostdata, results, hsent, mpc, agg, data, fs, fs_first, persists, dvars, rvars, wvars>>

\* get_device_state: one turn of the loop, and the return when it was the
\* last turn or the turn failed.
StateSend(h) ==
    /\ job = "collect_stateful_commands"
    /\ hpc[h] = "ready"
    /\ Len(hsent[h]) < Len(Commands(hostdata[h].data))
    /\ LET cmds == Commands(hostdata[h].data)
           cmd == cmds[Len(hsent[h]) + 1]
       IN \E o \in StateSendOutcomes, p \in ParserOutcomes :
           LET turn == LoopTurn(results[h], cmd, o, p)
               log == Append(hsent[h], [task |-> "netmiko_send_command",
                                        arg |-> cmd.command, outcome |-> o, parse |-> p,
                                        called |-> ParserCalled(cmd, o)])
           IN /\ hsent' = [hsent EXCEPT ![h] = log]
              /\ results' = [results EXCEPT ![h] = turn.results]
              /\ IF turn.failed
                 THEN HostDone(h, TaskStart(
                        Returned(Dict([status |-> FALSE, error |-> turn.error])),
                        SubResults(log)))
                 ELSE IF Len(log) = Len(cmds)
                 THEN HostDone(h, TaskStart(Returned(JsonDumps(turn.results)), SubResults(log)))
                 ELSE UNCHANGED <<hpc, hres>>
    /\ UNCHANGED <<job, args, hosts, hostdata, mpc, agg, data, fs, fs_first, persists, dvars, rvars, wvars>>

\* collect_stateful_commands after nornir.run returned.
StateReturn ==
    /\ job = "collect_stateful_commands"
    /\ mpc = "run"
    /\ \A h \in hosts : hpc[h] = "done"
    /\ agg' = AggregatedResult(hosts, hres)
    /\ LET r == PersistState(fs, agg', args.output) IN
        /\ mpc' = IF r.crashed THEN "crashed" ELSE "done"
        /\ fs' = r.fs
        /\ fs_first' = r.fs
    /\ persists' = 1
    /\ UNCHANGED <<job, args, hosts, hostdata, hpc, results, hsent, hres, data, dvars, rvars, wvars>>

\* The persist loop of collect_stateful_commands run once more on the same
\* Fleet Result and the same folder.
PersistAgain ==
    /\ job = "collect_stateful_commands"
    /\ mpc # "run"
    /\ args.output
    /\ persists < MaxPersists
    /\ fs' = PersistState(fs, agg, args.output).fs
    /\ persists' = persists + 1
    /\ UNCHANGED <<job, args, hosts, hostdata, hpc, results, hsent, hres, mpc, agg, data, fs_first, dvars, rvars, wvars>>

\* ------------------------------- drivers/default.py, wait_until_reachable
MaxTimeout == 3
MaxPing == 1

\* The timeouts a caller passes, a negative one among them.
Timeouts == (0 - 1)..MaxTimeout

\* What os.system returns for ping: 0, or the wait status of exit code 1 or 2.
PingResponses == {0, 256, 512}

\* A loop test that lets the deadline itself through.
WaitLoopCondInclusive(start_time, t, now) == start_time + t >= now

\* Line 155: while start_time + timeout > time.time()
WaitLoopCond(start_time, t, now) == start_time + t > now

WaitInit ==
    /\ timeout \in Timeouts
    /\ elapsed = 0
    /\ probes = <<>>
    /\ wpc = "test"
    /\ wresult = Pending

\* The loop test of line 155, and the return of line 164 when it fails.
WaitTest ==
    /\ wpc = "test"
    /\ IF WaitLoopCond(0, timeout, elapsed)
       THEN wpc' = "probe" /\ wresult' = wresult
       ELSE wpc' = "done" /\ wresult' = Returned(Dict([status |-> FALSE]))
    /\ UNCHANGED <<timeout, elapsed, probes, dvars, fvars, rvars>>

\* Lines 156-159: one ping, which takes d seconds, and the return when it
\* answered.
WaitProbe ==
    /\ wpc = "probe"
    /\ \E response \in PingResponses, d \in 0..MaxPing :
        /\ probes' = Append(probes, [at |-> elapsed, response |-> response])
        /\ elapsed' = elapsed + d
        /\ IF response = 0
           THEN wpc' = "done" /\ wresult' = Returned(Dict([status |-> TRUE]))
           ELSE wpc' = "sleep" /\ wresult' = wresult
    /\ UNCHANGED <<timeout, dvars, fvars, rvars>>

\* Line 162: time.sleep(1)
WaitSleep ==
    /\ wpc = "sleep"
    /\ elapsed' = elapsed + 1
    /\ wpc' = "test"
    /\ UNCHANGED <<timeout, probes, wresult, dvars, fvars, rvars>>

\* ------------------------------------------------------- specifications
DispatchIdle ==
    /\ platform = "default" /\ kwargs = NoOverrides /\ method = "get_config"
    /\ config = <<>> /\ dpc = "idle" /\ driver = <<>> /\ invoked = <<>> /\ sent = <<>>
    /\ driver_outcome = Pending /\ outcome = Pending

FleetIdle ==
    /\ job = "none" /\ args = Empty /\ hosts = {} /\ hostdata = Empty /\ hpc = Empty
    /\ results = Empty /\ hsent = Empty /\ hres = Empty /\ mpc = "idle" /\ agg = <<>>
    /\ data = <<>> /\ fs = Empty /\ fs_first = Empty /\ persists = 0

RenameIdle ==
    /\ structured_data = None /\ ignore_columns = <<>> /\ processed = None /\ rpc = "idle"

WaitIdle ==
    /\ timeout = 0 /\ elapsed = 0 /\ probes = <<>> /\ wpc = "idle" /\ wresult = Pending

FleetNext ==
    \/ \E h \in hosts : RunCommandSend(h)
    \/ RunCommandReturn
    \/ \E h \in hosts : ConfigDispatch(h)
    \/ \E h \in hosts : ConfigSend(h)
    \/ ConfigReturn
    \/ \E h \in hosts : StateNoCommands(h)
    \/ \E h \in hosts : StateSend(h)
    \/ StateReturn
    \/ PersistAgain

\* A fleet run: run_command, collect_device_configuration or
\* collect_stateful_commands over an inventory.
Init == FleetInit /\ DispatchIdle /\ RenameIdle /\ WaitIdle
Next == FleetNext
Spec == Init /\ [][Next]_vars

\* One dispatcher call on one host.
InitDispatch == DispatchInit /\ FleetIdle /\ RenameIdle /\ WaitIdle
NextDispatch ==
    Dispatcher \/ RunGetConfig \/ RunDeployConfig \/ ReloadSend \/ ReloadConfirm
SpecDispatch == InitDispatch /\ [][NextDispatch]_vars

\* One process_structured_output call.
InitRename == RenameInit /\ DispatchIdle /\ FleetIdle /\ WaitIdle
NextRename == ProcessCall
SpecRename == InitRename /\ [][NextRename]_vars

\* One wait_until_reachable call. The call is one thread of control that
\* runs on as long as it has a step to take: weak fairness of its steps.
InitWait == WaitInit /\ DispatchIdle /\ FleetIdle /\ RenameIdle
NextWait == WaitTest \/ WaitProbe \/ WaitSleep
SpecWait == InitWait /\ [][NextWait]_vars /\ WF_vars(NextWait)

\* Any one of the calls above: a fleet run, a dispatcher call, a
\* wait_until_reachable call.
InitAll == Init \/ InitDispatch \/ InitWait
NextAll == Next \/ NextDispatch \/ NextWait
SpecAll == InitAll /\ [][NextAll]_vars

\* ------------------------------------------------------- claims on dispatch
\* C1: for every platform that is a key of the built-in mapping, a dispatch
\* without an overrides mapping does not fail to resolve, and the driver
\* whose method it invokes is the one the mapping registers for the platform.
C1_BuiltinPlatformResolves ==
    (dpc # "call" /\ ~kwargs.supplied /\ method \in DriverMethods
        /\ platform \in DOMAIN DEFAULT_DRIVERS_MAPPING)
    => /\ Len(invoked) = 1
       /\ invoked[1].driver = DEFAULT_DRIVERS_MAPPING[platform]

C5_DeployConfigNeverRaises ==
    (dpc = "done" /\ method = "deploy_config" /\ Len(sent) = 1)
    => /\ ~driver_outcome.raised
       /\ driver_outcome.result =
            Dict([status |-> sent[1].outcome.ok,
                  error |-> IF sent[1].outcome.ok THEN None
                            ELSE StrOf(sent[1].outcome.exc)])

C5_Witness ==
    /\ dpc = "done"
    /\ method = "deploy_config"
    /\ Len(sent) = 1
    /\ sent[1].arg = <<<<"interface eth0">>, <<"no shutdown">>>>
    /\ sent[1].outcome.exc = AuthFailure
    /\ driver_outcome = Returned(Dict([status |-> FALSE, error |-> StrOf(AuthFailure)]))

\* C10: when the platform has no exact entry in the mapping in use and that
\* mapping has a "default" entry, dispatch resolves to the driver of the
\* "default" entry and does not fail with DriverNotFound.
C10_FallsBackToDefault ==
    (dpc # "call" /\ platform \notin DOMAIN SelectMapping(kwargs)
        /\ "default" \in DOMAIN SelectMapping(kwargs))
    => /\ driver = SelectMapping(kwargs)["default"]
       /\ outcome # Raised(DriverNotFound)

\* C11: whenever an overrides mapping is supplied, whatever its contents, the
\* lookup uses that mapping only: the driver looked up is the entry of the
\* overrides for the platform or nothing, and a platform that is a key of
\* the built-in mapping but not of the overrides is not resolved to its
\* built-in driver.
C11_OverridesOnly ==
    (dpc # "call" /\ kwargs.supplied)
    => /\ driver = MappingGet(kwargs.mapping, platform)
       /\ (platform \in DOMAIN DEFAULT_DRIVERS_MAPPING
            /\ platform \notin DOMAIN kwargs.mapping)
          => driver # DEFAULT_DRIVERS_MAPPING[platform]

\* C12: when the send of get_config fails, get_config raises: an
\* authentication error for an authentication failure, a timeout error for a
\* timeout failure, an unknown-issue error for any other failure, each
\* carrying the transport failure; it returns no result for a failed send.
C12_GetConfigHardFailures ==
    (dpc = "done" /\ method = "get_config" /\ Len(sent) = 1 /\ ~sent[1].outcome.ok)
    => /\ driver_outcome.raised
       /\ driver_outcome.result = None
       /\ driver_outcome.exc.type = "OptiNetworkAutomationException"
       /\ driver_outcome.exc.detail = sent[1].outcome.exc
       /\ driver_outcome.exc.msg =
            (CASE sent[1].outcome.exc = AuthFailure -> "Failed with an authentication issue"
               [] sent[1].outcome.exc = TimeoutFailure -> "Failed with a timeout issue"
               [] OTHER -> "Failed with an unknown issue")

C12_Witness ==
    /\ dpc = "done"
    /\ method = "get_config"
    /\ Len(sent) = 1
    /\ sent[1].outcome.exc = OtherFailure
    /\ driver_outcome.raised
    /\ driver_outcome.exc.msg = "Failed with an unknown issue"

\* C13: when the send of get_config succeeds, get_config raises the
\* rejected-command error and returns no result if the text holds the
\* syntax-error marker anywhere, and returns {config: text}, the text
\* unchanged, if it does not.
C13_SyntaxErrorMarker ==
    (dpc = "done" /\ method = "get_config" /\ Len(sent) = 1 /\ sent[1].outcome.ok)
    => IF \E i \in 1..Len(sent[1].outcome.text) : sent[1].outcome.text[i] = InvalidInput
       THEN /\ driver_outcome.raised
            /\ driver_outcome.result = None
            /\ driver_outcome.exc.type = "OptiNetworkAutomationException"
            /\ driver_outcome.exc.msg =
                    "Discovered ERROR: % Invalid input detected at in the output"
       ELSE driver_outcome = Returned(Dict([config |-> Str(sent[1].outcome.text)]))

C13_Witness ==
    /\ dpc = "done"
    /\ method = "get_config"
    /\ Len(sent) = 1
    /\ sent[1].outcome.ok
    /\ sent[1].outcome.text = <<Line("show run"), InvalidInput>>
    /\ driver_outcome.raised

\* C17: when the driver class resolves and the requested method is not one
\* of its capabilities, dispatch fails with the method-not-found error before
\* anything runs: no driver method is invoked, nothing is sent. Whenever a
\* driver method is invoked, the method is a capability of the driver.
C17_MethodNotFoundFirst ==
    /\ (dpc # "call" /\ Len(driver) >= 2
            /\ SubSeq(driver, 1, Len(driver) - 1) \in DOMAIN InstalledModules
            /\ driver[Len(driver)] \in
                    DOMAIN InstalledModules[SubSeq(driver, 1, Len(driver) - 1)]
            /\ method \notin DriverMethods)
        => /\ dpc = "done"
           /\ outcome.raised
           /\ outcome.exc.type = "FluxusNetmikoException"
           /\ outcome.exc.msg = "Unable to locate the method"
           /\ invoked = <<>>
           /\ sent = <<>>
    /\ \A i \in 1..Len(invoked) :
            invoked[i].method \in
                InstalledModules[SubSeq(invoked[i].driver, 1, Len(invoked[i].driver) - 1)]
                                [invoked[i].driver[Len(invoked[i].driver)]]

C17_Witness ==
    /\ dpc = "done"
    /\ platform = "cisco_ios"
    /\ kwargs.supplied
    /\ driver = RepoDriver
    /\ method = "no_such_method"
    /\ outcome = Raised(MethodNotFound)
    /\ invoked = <<>>

C19_SubtaskErrorOrPassThrough ==
    (dpc = "done" /\ Len(invoked) = 1)
    => LET mr == TaskStart(driver_outcome, SubResults(sent)) IN
       IF MRFailed(mr)
       THEN /\ outcome.raised
            /\ outcome.exc.type = "FluxusNetmikoException"
            /\ outcome.exc.msg = "Subtask failed"
            /\ mr[1].result.kind = "str"
            /\ outcome.exc.detail = mr[1].result.lines[Len(mr[1].result.lines)]
       ELSE /\ ~outcome.raised
            /\ outcome.result.error = None
            /\ outcome.result.result[1].result = driver_outcome.result

\* C22: reload_device sends confirm only after the reload send succeeded: a
\* confirm send is the second send and follows a reload send that did not
\* fail; after a failed reload send nothing more is sent; when both sends
\* succeed the output is the reload output followed by the confirm output.
C22_ReloadThenConfirm ==
    method = "reload_device"
    => /\ \A i \in 1..Len(sent) :
            /\ sent[i].arg = (IF i = 1 THEN "reload" ELSE "confirm")
            /\ sent[i].arg = "confirm" => (i = 2 /\ sent[1].outcome.ok)
       /\ (Len(sent) >= 1 /\ ~sent[1].outcome.ok) => (Len(sent) = 1 /\ dpc = "done")
       /\ (dpc = "done" /\ Len(sent) = 2 /\ sent[2].outcome.ok)
            => /\ ~driver_outcome.raised
               /\ driver_outcome.result.d.output =
                    Str((IF sent[1].outcome.text = <<>> THEN <<Line("")>>
                         ELSE sent[1].outcome.text) \o sent[2].outcome.text)

C22_Witness ==
    /\ method = "reload_device"
    /\ dpc = "done"
    /\ Len(sent) = 2
    /\ sent[1].outcome.text = <<Line("hostname r1")>>
    /\ sent[2].outcome.text = <<Line("show run"), InvalidInput>>
    /\ driver_outcome.result.d.output =
            Str(<<Line("hostname r1"), Line("show run"), InvalidInput>>)

\* ------------------------------------------------------- claims on a fleet run
\* C3: for every inventory of n hosts and every combination of per-host
\* successes and failures, a fleet run yields a result mapping with exactly
\* n entries, one per host name: no host of the inventory is dropped.
C3_OneEntryPerHost ==
    (mpc # "run")
    => LET m == IF job = "run_command" THEN data ELSE agg IN
       /\ job = "run_command" => mpc = "done"
       /\ Len(m) = Cardinality(hosts)
       /\ Keys(m) = hosts

ResolutionFails(h) ==
    Resolve(NoOverrides, hostdata[h].platform, "get_config").exc = DriverNotFound

\* C4: in a fleet get_config run, a host whose driver resolution fails with
\* DriverNotFound ends with the failure captured in its own Host Result as
\* status=false with a non-null error, not raised out of the host's task;
\* every other host's Host Result is what its own platform and send make it.
C4_ResolutionFailureCaptured ==
    \A h \in hosts :
        (job = "collect_device_configuration" /\ hpc[h] = "done" /\ ResolutionFails(h))
        => /\ ~hres[h][1].failed
           /\ hres[h][1].result.kind = "dict"
           /\ hres[h][1].result.d.status = FALSE
           /\ hres[h][1].result.d.error # None
           /\ \A g \in hosts \ {h} :
                (hpc[g] = "done" /\ Len(hsent[g]) = 1)
                => hres[g][1] = TaskStart(SubCollect(DispatcherMR(hsent[g][1].outcome)),
                                          <<>>)[1]

\* The turns of host h so far all sent and parsed without failure.
AllTurnsOk(h) ==
    \A i \in 1..Len(hsent[h]) : hsent[h][i].outcome.ok /\ ~hsent[h][i].parse.raised

\* C6: in state collection, when a command is sent successfully and the
\* parser yields no record for its output, the Command Result appended for
\* it has unstructured equal to the raw device text and structured null, and
\* the host's collection does not fail on that turn.
C6_ParseMissKeepsText ==
    \A h \in hosts : \A i \in 1..Len(hsent[h]) :
        (job = "collect_stateful_commands" /\ hsent[h][i].outcome.ok
            /\ ~hsent[h][i].parse.raised /\ hsent[h][i].parse.records = <<>>)
        => /\ i <= Len(results[h])
           /\ results[h][i].cmd = hsent[h][i].arg
           /\ results[h][i].unstructured = Str(hsent[h][i].outcome.text)
           /\ results[h][i].unstructured # None
           /\ results[h][i].structured = None
           /\ (i = Len(hsent[h]) /\ hpc[h] = "done")
                => hres[h][1] = Result(JsonDumps(results[h]))

C6_Witness ==
    /\ job = "collect_stateful_commands"
    /\ \E h \in hosts :
        /\ hpc[h] = "done"
        /\ Len(hsent[h]) = 2
        /\ hsent[h][2].outcome.ok
        /\ hsent[h][2].parse = [raised |-> FALSE, records |-> <<>>]
        /\ hres[h][1].result.kind = "json"
        /\ JsonLoads(hres[h][1].result)[2].structured = None
        /\ JsonLoads(hres[h][1].result)[2].unstructured = Str(<<Line("up")>>)

\* C7: for every host and every Command Spec list [c1..ck] of it, when all
\* commands succeed the Host Result holds k Command Results, the i-th being
\* the result of ci, whatever the interleaving with the other hosts' tasks.
C7_ResultsInCommandOrder ==
    \A h \in hosts :
        (job = "collect_stateful_commands" /\ hpc[h] = "done" /\ AllTurnsOk(h))
        => LET cmds == Commands(hostdata[h].data) IN
           /\ hres[h][1].result.kind = "json"
           /\ Len(JsonLoads(hres[h][1].result)) = Len(cmds)
           /\ \A i \in 1..Len(cmds) :
                JsonLoads(hres[h][1].result)[i] =
                    CommandResult(cmds[i], hsent[h][i].outcome, hsent[h][i].parse)

C7_Witness ==
    /\ job = "collect_stateful_commands"
    /\ hosts = HostNames
    /\ \A h \in hosts : hpc[h] = "done" /\ AllTurnsOk(h)
    /\ Commands(hostdata["host-a"].data) = <<CmdA, CmdB>>
    /\ Commands(hostdata["host-b"].data) = <<CmdB, CmdC>>
    /\ JsonLoads(hres["host-a"][1].result)[1].cmd = CmdA.command
    /\ JsonLoads(hres["host-a"][1].result)[2].cmd = CmdB.command
    /\ JsonLoads(hres["host-b"][1].result)[2].cmd = CmdC.command

\* C9: persisting the same Fleet Result a second time to the same folder
\* leaves the set of files and the content of each file as the first
\* persist left them.
C9_PersistIdempotent ==
    (job = "collect_stateful_commands" /\ persists >= 2) => fs = fs_first

C9_Witness ==
    /\ job = "collect_stateful_commands"
    /\ persists = 2
    /\ mpc = "done"
    /\ Cardinality(DOMAIN fs) >= 3

\* C14: state collection is fail-fast per host: once the send of command ci
\* of a host has failed, ci is the last command sent to that host, the
\* host's task is over and its Host Result is {status: false, error: the
\* sub-task error of ci}; every other host that is not done can still take
\* its next step.
C14_FailFastPerHost ==
    \A h \in hosts : \A i \in 1..Len(hsent[h]) :
        (job = "collect_stateful_commands" /\ ~hsent[h][i].outcome.ok)
        => /\ Len(hsent[h]) = i
           /\ \A j \in 1..(i - 1) : hsent[h][j].outcome.ok
           /\ hpc[h] = "done"
           /\ hres[h][1] = Result(Dict([status |-> FALSE, error |-> SubTaskError]))
           /\ hres[h][i + 1] = FailedResult(hsent[h][i].outcome.exc)
           /\ \A g \in hosts \ {h} :
                hpc[g] # "done" => ENABLED (StateSend(g) \/ StateNoCommands(g))

C14_Witness ==
    /\ job = "collect_stateful_commands"
    /\ hosts = HostNames
    /\ Len(Commands(hostdata["host-a"].data)) = 2
    /\ Len(hsent["host-a"]) = 1
    /\ ~hsent["host-a"][1].outcome.ok
    /\ hpc["host-a"] = "done"
    /\ Len(hsent["host-b"]) = 2
    /\ hpc["host-b"] = "done"
    /\ hres["host-b"][1].result.kind = "json"

\* C20: the commands sent to a host are those of its direct commands list
\* when that list is not empty, and otherwise those of the commands list
\* under its config_context; the two lists are never joined; a host with
\* neither is sent nothing and its task returns the empty result list.
C20_CommandsSource ==
    \A h \in hosts :
        (job = "collect_stateful_commands" /\ hpc[h] = "done" /\ AllTurnsOk(h))
        => LET d == hostdata[h].data
               direct == IF "commands" \in DOMAIN d THEN d["commands"] ELSE <<>>
               nested == IF "config_context" \in DOMAIN d
                            /\ "commands" \in DOMAIN d["config_context"]
                         THEN d["config_context"]["commands"] ELSE <<>>
               expected == IF direct # <<>> THEN direct ELSE nested
           IN /\ Len(hsent[h]) = Len(expected)
              /\ \A i \in 1..Len(expected) : hsent[h][i].arg = expected[i].command
              /\ (direct = <<>> /\ nested = <<>>)
                    => hres[h] = <<Result(JsonDumps(<<>>))>>

C20_Witness ==
    /\ job = "collect_stateful_commands"
    /\ hosts = HostNames
    /\ \A h \in hosts : hpc[h] = "done"
    /\ hostdata["host-a"].data =
            [k \in {"commands", "config_context"} |->
                IF k = "commands" THEN <<CmdA>> ELSE [c \in {"commands"} |-> <<CmdC>>]]
    /\ Len(hsent["host-a"]) = 1
    /\ hsent["host-a"][1].arg = CmdA.command
    /\ hsent["host-a"][1].outcome.ok
    /\ hostdata["host-b"].data =
            [k \in {"commands", "config_context"} |->
                IF k = "commands" THEN <<>> ELSE [c \in {"commands"} |-> <<CmdB>>]]
    /\ Len(hsent["host-b"]) = 1
    /\ hsent["host-b"][1].arg = CmdB.command

\* C21: parsing is optional per Command Spec: for a Command Spec whose parse
\* flag is false the parser is not called and structured is null; structured
\* is not null only if parsing was asked for, did not fail and yielded at
\* least one record.
C21_ParseOptional ==
    \A h \in hosts : \A i \in 1..Len(hsent[h]) :
        job = "collect_stateful_commands"
        => LET cmd == Commands(hostdata[h].data)[i]
               off == "parse" \in DOMAIN cmd /\ ~cmd["parse"]
           IN /\ off => ~hsent[h][i].called
              /\ i <= Len(results[h])
                    => /\ off => results[h][i].structured = None
                       /\ results[h][i].structured # None
                            => /\ ~off
                               /\ ~hsent[h][i].parse.raised
                               /\ hsent[h][i].parse.records # <<>>

\* C23: with output enabled, persisting a Fleet Result in which some host
\* failed ({status: false, error}) completes without error, and the files of
\* every host whose collection succeeded are written, for
\* collect_stateful_commands and for collect_device_configuration.
C23_PersistWithFailedHosts ==
    (mpc # "run" /\ args.output
        /\ job \in {"collect_stateful_commands", "collect_device_configuration"}
        /\ \E g \in hosts : /\ hres[g][1].result.kind = "dict"
                             /\ ~hres[g][1].result.d.status)
    => /\ mpc = "done"
       /\ \A h \in hosts :
            LET r == hres[h][1].result IN
            /\ (job = "collect_stateful_commands" /\ r.kind = "json")
                => \A i \in 1..Len(JsonLoads(r)) :
                    LET c == JsonLoads(r)[i] IN
                    /\ Truthy(c.unstructured)
                        => StatePath(h, c.cmd, ".output") \in DOMAIN fs
                    /\ Truthy(c.structured)
                        => StatePath(h, c.cmd, ".json") \in DOMAIN fs
            /\ (job = "collect_device_configuration" /\ r.kind = "dict" /\ r.d.status)
                => /\ ConfigPath(h) \in DOMAIN fs
                   /\ fs[ConfigPath(h)] = <<r.d.config>>

\* C24: sub_collect_device_configuration returns {status: true, error: null,
\* config: text} whenever get_config returned {config: text}, that is the
\* send succeeded and the text holds no syntax-error marker, for every text,
\* the empty one included; it returns status false only when get_config or
\* the dispatch failed.
C24_SubCollectStatus ==
    \A h \in hosts :
        (job = "collect_device_configuration" /\ hpc[h] = "done")
        => LET r == hres[h][1].result
               got == /\ Len(hsent[h]) = 1
                      /\ hsent[h][1].outcome.ok
                      /\ \A i \in 1..Len(hsent[h][1].outcome.text) :
                            hsent[h][1].outcome.text[i] # InvalidInput
           IN /\ got => /\ ~hres[h][1].failed
                         /\ r = Dict([status |-> TRUE, error |-> None,
                                       config |-> Str(hsent[h][1].outcome.text)])
              /\ (r.kind = "dict" /\ ~r.d.status) => ~got

\* The files of host h in fs whose name ends in ext.
FilesOf(h, ext) ==
    {q \in DOMAIN fs : q.dir = <<"state", h>> /\ q.name[Len(q.name)] = ext}

\* C25: in collect_stateful_commands with output enabled, the Command
\* Results of a host whose commands are distinct are written to distinct
\* files: after a persist there are as many .output files of the host as
\* Command Results with text, and as many .json files as Command Results
\* with records.
C25_DistinctFiles ==
    \A h \in hosts :
        (job = "collect_stateful_commands" /\ args.output /\ mpc = "done"
            /\ hres[h][1].result.kind = "json"
            /\ \A i, j \in 1..Len(results[h]) :
                    i # j => results[h][i].cmd # results[h][j].cmd)
        => /\ Cardinality(FilesOf(h, ".output")) =
                Cardinality({i \in 1..Len(results[h]) : Truthy(results[h][i].unstructured)})
           /\ Cardinality(FilesOf(h, ".json")) =
                Cardinality({i \in 1..Len(results[h]) : Truthy(results[h][i].structured)})

\* ------------------------------------- claims on process_structured_output
Range(f) == {f[i] : i \in DOMAIN f}

Lossless(before, after, cols) ==
    /\ Cardinality(DOMAIN after) = Cardinality(DOMAIN before)
    /\ \A k \in DOMAIN before :
        IF k \in Range(cols)
        THEN Marked(k) \in DOMAIN after /\ after[Marked(k)] = before[k]
        ELSE k \in DOMAIN after /\ after[k] = before[k]

\* C8: process_structured_output renames without loss: for every record and
\* every ignore_columns, each key k of the record in ignore_columns becomes
\* "__k" with the same value, every other field is unchanged, and the record
\* has as many fields after as before.
C8_RenameWithoutLoss ==
    (rpc = "done")
    => /\ structured_data.kind = "dict"
            => Lossless(structured_data.d, processed.d, ignore_columns)
       /\ structured_data.kind = "list"
            => /\ Len(processed.v) = Len(structured_data.v)
               /\ \A i \in 1..Len(structured_data.v) :
                    Lossless(structured_data.v[i], processed.v[i], ignore_columns)

\* ------------------------------------------- claims on wait_until_reachable
\* What holds of every state of a wait_until_reachable call.
WaitSafe ==
    /\ \A i \in 1..Len(probes) :
        /\ probes[i].at < timeout
        /\ probes[i].response = 0 => i = Len(probes)
    /\ wpc = "done"
        => /\ wresult \in {Returned(Dict([status |-> b])) : b \in BOOLEAN}
           /\ wresult.result.d.status
                <=> \E i \in 1..Len(probes) : probes[i].response = 0
           /\ ~wresult.result.d.status => elapsed >= timeout

\* C18: wait_until_reachable terminates for every timeout and every pattern
\* of ping answers; it returns {status: true} exactly when one of its pings
\* answered, pings no more after one that answered, starts no ping at or
\* after the deadline, and returns {status: false} only once the timeout has
\* elapsed with every ping failed.
C18_WaitTerminates == [](WaitSafe) /\ <>(wpc = "done")

C18_Witness ==
    /\ wpc = "done"
    /\ timeout = 3
    /\ Len(probes) = 2
    /\ probes[1].response = 256
    /\ probes[2].response = 512
    /\ probes[2].at = 2
    /\ wresult = Returned(Dict([status |-> FALSE]))

\* ------------------------------------------------ claims on every operation
\* A result that carries a status has status true with error null (or no
\* error), or status false with an error that is not null.
StatusAgreesWithError(r) ==
    (r.kind = "dict" /\ "status" \in DOMAIN r.d)
    => IF r.d.status
       THEN "error" \in DOMAIN r.d => r.d.error = None
       ELSE "error" \in DOMAIN r.d /\ r.d.error # None

\* C16: in every Host Result that carries a status, returned by a driver
\* operation (deploy_config, reload_device, wait_until_reachable) or by a
\* collection task, status true implies error null and status false implies
\* an error that is not null.
C16_StatusErrorInvariant ==
    /\ StatusAgreesWithError(driver_outcome.result)
    /\ StatusAgreesWithError(wresult.result)
    /\ \A h \in hosts : hpc[h] = "done" => StatusAgreesWithError(hres[h][1].result)

\* C16, amended: in every Host Result that carries a status, returned by
\* deploy_config, reload_device or a collection task, status true implies
\* error null and status false implies an error that is not null; the result
\* of wait_until_reachable carries a status alone, without an error field.
C16_StatusErrorWhereReported ==
    /\ StatusAgreesWithError(driver_outcome.result)
    /\ \A h \in hosts : hpc[h] = "done" => StatusAgreesWithError(hres[h][1].result)
    /\ wresult.result.kind = "dict" => DOMAIN wresult.result.d = {"status"}

C16_Witness ==
    /\ dpc = "done"
    /\ method = "deploy_config"
    /\ Len(sent) = 1
    /\ sent[1].outcome.exc = TimeoutFailure
    /\ driver_outcome.result.kind = "dict"
    /\ driver_outcome.result.d.status = FALSE
    /\ driver_outcome.result.d.error = StrOf(TimeoutFailure)

====
